---- MODULE Spec2Model ----
(***************************************************************************)
(* The adventure game socket server of server.py: one Server object, one   *)
(* client connection, the request/response loop of Server.serve.           *)
(*                                                                         *)
(* Text (str) is a sequence of one-character strings; data on the wire     *)
(* (bytes) is a sequence of byte values 0..255.  encode and decode convert *)
(* between the two as UTF-8 does on the modelled alphabet: the printable   *)
(* ASCII characters, tab, line feed and carriage return, and the byte 0xFF *)
(* which no UTF-8 text contains.                                           *)
(***************************************************************************)
EXTENDS Integers, Sequences, FiniteSets, TLC

\* ------------------------------------------------------------------ bounds
\* commands the client sends in one session
MaxCmds == 3
\* recv calls that return data within one get_input
MaxChunks == 2
\* recv calls counted after the peer closed the connection
MaxEmptyReads == 2

\* --------------------------------------------------------- text and bytes
\* the characters with code points 32..95, in order
PrintableLow ==
    <<" ","!","\"","#","$","%","&","'","(",")","*","+",",","-",".","/","0",
      "1","2","3","4","5","6","7","8","9",":",";","<","=",">","?","@","A",
      "B","C","D","E","F","G","H","I","J","K","L","M","N","O","P","Q","R",
      "S","T","U","V","W","X","Y","Z","[","\\","]","^","_">>

\* the characters with code points 97..126, in order (a TLA+ string cannot
\* hold the grave accent, code point 96, which is left out of the alphabet)
PrintableHigh ==
    <<"a","b","c","d","e","f","g","h","i","j","k","l","m","n","o","p","q",
      "r","s","t","u","v","w","x","y","z","{","|","}","~">>

LF == 10

\* chr(n) for the modelled code points
Chr(n) ==
    IF n = 9 THEN "\t"
    ELSE IF n = 10 THEN "\n"
    ELSE IF n = 13 THEN "\r"
    ELSE IF n < 96 THEN PrintableLow[n - 31]
    ELSE PrintableHigh[n - 96]

AsciiCodes == {9, 10, 13} \cup (32..95) \cup (97..126)

\* ord(c), the inverse of Chr
Ord ==
    [c \in {Chr(n) : n \in AsciiCodes} |->
        CHOOSE n \in AsciiCodes : Chr(n) = c]

\* str.encode(): one byte per ASCII character
encode(s) == [i \in 1..Len(s) |-> Ord[s[i]]]

\* bytes.decode() raises UnicodeDecodeError on a byte that is not UTF-8
Decodable(b) == \A i \in 1..Len(b) : b[i] < 128

\* bytes.decode() of ASCII bytes
decode(b) == [i \in 1..Len(b) |-> Chr(b[i])]

\* the loop test of get_input: a newline byte is in received
HasNewline(b) == \E i \in 1..Len(b) : b[i] = LF

\* the characters str.strip() removes
Whitespace == {" ", "\t", "\n", "\r"}

\* str.strip(): drop leading and trailing whitespace
strip(s) ==
    LET keep == {i \in 1..Len(s) : s[i] \notin Whitespace}
        first == CHOOSE i \in keep : \A j \in keep : i <= j
        last == CHOOSE i \in keep : \A j \in keep : j <= i
    IN  IF keep = {} THEN <<>> ELSE SubSeq(s, first, last)

\* str.split(sep, 1): cuts at the first separator only
splitFirst(s, sep) ==
    LET cuts == {i \in 1..Len(s) : s[i] = sep}
        c == CHOOSE i \in cuts : \A j \in cuts : i <= j
    IN  IF cuts = {} THEN <<s>>
        ELSE <<SubSeq(s, 1, c - 1), SubSeq(s, c + 1, Len(s))>>

RECURSIVE split(_, _)
\* str.split(sep) with a one-character separator: cuts at every separator,
\* empty pieces included
split(s, sep) ==
    LET cuts == {i \in 1..Len(s) : s[i] = sep}
        c == CHOOSE i \in cuts : \A j \in cuts : i <= j
    IN  IF cuts = {} THEN <<s>>
        ELSE <<SubSeq(s, 1, c - 1)>> \o split(SubSeq(s, c + 1, Len(s)), sep)

RECURSIVE joinWithSpace(_)
\* ' '.join(pieces)
joinWithSpace(pieces) ==
    IF pieces = <<>> THEN <<>>
    ELSE IF Tail(pieces) = <<>> THEN Head(pieces)
    ELSE Head(pieces) \o <<" ">> \o joinWithSpace(Tail(pieces))

RECURSIVE join(_)
\* ''.join(pieces)
join(pieces) ==
    IF pieces = <<>> THEN <<>> ELSE Head(pieces) \o join(Tail(pieces))

\* ------------------------------------------------------- program constants
\* the name of the game in the example session of the class docstring
game_nameDocstring ==
    <<"R","e","a","l","m","s"," ","o","f"," ","V","e","n","t","u","r","e">>

game_name ==
    <<"L","a","n","d"," ","o","f"," ","t","h","e"," ","L","o","s","t">>

Description0 ==
    <<"Y","o","u"," ","a","r","e"," ","i","n"," ","t","h","e"," ","w","h",
      "i","t","e"," ","r","o","o","m"," ","w","i","t","h"," ","b","l","a",
      "c","k"," ","c","u","r","t","a","i","n","s",","," ","a"," ","s","w",
      "o","r","d"," ","g","l","i","s","t","e","n","s"," ","i","n"," ","t",
      "h","e"," ","c","o","r","n","e","r",".",".",".">>

Description1 ==
    <<"Y","o","u"," ","a","r","e"," ","i","n"," ","t","h","e"," ","j","u",
      "n","g","l","e"," ","r","o","o","m"," ","w","i","t","h"," ","m","a",
      "n","y"," ","s","t","r","a","n","g","e"," ","a","n","i","m","a","l",
      " ","b","u","s","t","s"," ","i","n"," ","h","e","r","e",","," ","t",
      "h","e","y"," ","a","l","m","o","s","t"," ","s","e","e","m"," ","t",
      "o"," ","b","e"," ","r","e","a","l","?">>

Description2 ==
    <<"Y","o","u"," ","a","r","e"," ","i","n"," ","t","h","e"," ","r","a",
      "n","c","o","r"," ","p","i","t",","," ","w","a","t","c","h"," ","o",
      "u","t","!">>

Description3 ==
    <<"Y","o","u"," ","a","r","e"," ","i","n"," ","t","h","e"," ","d","u",
      "n","g","e","o","n",","," ","a"," ","d","i","m","l","y"," ","l","i",
      "t"," ","t","o","r","c","h"," ","c","a","n"," ","b","e"," ","s","e",
      "e","n"," ","d","o","w","n"," ","t","h","e"," ","h","a","l","l",".",
      ".",".">>

Welcome ==
    <<"W","e","l","c","o","m","e"," ","t","o"," ">>

YouSay ==
    <<"Y","o","u"," ","s","a","y",","," ","\"">>

Goodbye ==
    <<"G","o","o","d","b","y","e"," ","A","d","v","e","n","t","u","r","e",
      "r","!">>

OKPrefix == <<79, 75, 33, 32>>

quit == <<"q","u","i","t">>
move == <<"m","o","v","e">>
say == <<"s","a","y">>
north == <<"n","o","r","t","h">>
south == <<"s","o","u","t","h">>
east == <<"e","a","s","t">>
west == <<"w","e","s","t">>

\* ------------------------------------------------------------ client input
\* what one recv(16) can return while the peer is connected: at most 16
\* bytes of the client's stream, cut anywhere
TextChunks ==
    {
    \* move north
      <<"m","o","v","e"," ","n","o","r","t","h","\n">>,
    \* move south
      <<"m","o","v","e"," ","s","o","u","t","h","\n">>,
    \* move east
      <<"m","o","v","e"," ","e","a","s","t","\n">>,
    \* move west
      <<"m","o","v","e"," ","w","e","s","t","\n">>,
    \* a word that is no direction
      <<"m","o","v","e"," ","u","p","\n">>,
    \* no argument
      <<"m","o","v","e","\n">>,
    \* sixteen bytes, two words
      <<"s","a","y"," ","h","e","l","l","o"," ","t","h","e","r","e","\n">>,
    \* one word
      <<"s","a","y"," ","h","i","\n">>,
    \* quit
      <<"q","u","i","t","\n">>,
    \* quit with an argument
      <<"q","u","i","t"," ","n","o","w","\n">>,
    \* unknown command
      <<"f","l","y"," ","u","p","\n">>,
    \* empty line
      <<"\n">>,
    \* case variant
      <<"Q","u","i","t","\n">>,
    \* tab between command and argument
      <<"m","o","v","e","\t","n","o","r","t","h","\n">>,
    \* space inside the argument
      <<"m","o","v","e"," ","n"," ","o","r","t","h","\n">>,
    \* two spaces
      <<"m","o","v","e"," "," ","n","o","r","t","h","\n">>,
    \* two commands in one chunk
      <<"s","a","y"," ","a","\n","s","a","y"," ","b","\n">>,
    \* two commands in one chunk
      <<"m","o","v","e"," ","e","a","s","t","\n","q","u","i","t","\n">>,
    \* first sixteen bytes of a longer line
      <<"s","a","y"," ","H","e","l","l","o","?"," ","I","s"," ","a","n">>,
    \* rest of that line
      <<"y","o","n","e"," ","h","e","r","e","?","\n">>
    }

\* a chunk with a byte that is not valid UTF-8
BadChunk == <<115, 97, 121, 32, 255, LF>>

Chunks == {encode(t) : t \in TextChunks} \cup {BadChunk}

\* the port Server() is constructed with: the default, and two numbers
\* outside 0..65535, which bind() refuses with OverflowError
Ports == {50000, 70000, -1}

\* ------------------------------------------------------------------- state
VARIABLES
    pc,                 \* the statement of serve() that runs next
    port,               \* self.port
    socket,             \* self.socket: "none", "open" or "closed"
    client_connection,  \* self.client_connection: "none", "open" or "closed"
    input_buffer,       \* self.input_buffer
    output_buffer,      \* self.output_buffer
    done,               \* self.done
    room,               \* self.room
    received,           \* the local of get_input
    peerClosed,         \* the client has closed its end of the connection
    error,              \* the exception that ended serve(), "none" if none
    nchunks,            \* recv calls of this get_input that returned data
    emptyReads,         \* recv calls that returned b'' so far
    nread,              \* commands get_input has returned
    sent,               \* messages push_output has sent
    lastMsg,            \* the bytes of the last sendall
    called,             \* the handler the last route() invoked, "none" if none
    argument,           \* the argument route() passed to it
    preRoom,            \* self.room when the last route() started
    preDone,            \* self.done when the last route() started
    clean,              \* the client has kept to the protocol so far: every
                        \* line read was one known command and the
                        \* connection was neither closed nor reset
    assigned            \* assignments to self.output_buffer since the last
                        \* push_output()

vars ==
    <<pc, port, socket, client_connection, input_buffer, output_buffer, done, room,
      received, peerClosed, error, nchunks, emptyReads, nread, sent, lastMsg,
      called, argument, preRoom, preDone, clean, assigned>>

sessionVars == <<input_buffer, output_buffer, done, room>>
socketVars == <<socket, client_connection>>
routeVars == <<called, argument, preRoom, preDone>>

\* ---------------------------------------------------------------- handlers
\* room_description with the text of room 1 used for room 2 as well
room_descriptionShared(room_number) ==
    <<Description0, Description1, Description1, Description3>>
        [IF room_number < 0 THEN room_number + 5 ELSE room_number + 1]

\* a list index below zero counts from the end of the list
room_description(room_number) ==
    <<Description0, Description1, Description2, Description3>>
        [IF room_number < 0 THEN room_number + 5 ELSE room_number + 1]

\* move without its last if-statement: no way back from room 3
moveRoomNoWayBack(r, arg) ==
    LET r1 == IF r = 0 /\ arg = north THEN 3 ELSE r
        r2 == IF r1 = 0 /\ arg = east THEN 2 ELSE r1
        r3 == IF r2 = 0 /\ arg = west THEN 1 ELSE r2
        r4 == IF r3 = 1 /\ arg = east THEN 0 ELSE r3
        r5 == IF r4 = 2 /\ arg = west THEN 0 ELSE r4
    IN  r5

\* move with room 3 written as the list index -1, the last element of the
\* list of descriptions
moveRoomNorthLast(r, arg) ==
    LET r1 == IF r = 0 /\ arg = north THEN -1 ELSE r
        r2 == IF r1 = 0 /\ arg = east THEN 2 ELSE r1
        r3 == IF r2 = 0 /\ arg = west THEN 1 ELSE r2
        r4 == IF r3 = 1 /\ arg = east THEN 0 ELSE r3
        r5 == IF r4 = 2 /\ arg = west THEN 0 ELSE r4
        r6 == IF r5 = 3 /\ arg = south THEN 0 ELSE r5
    IN  r6

\* move with the tests of rooms 1, 2 and 3 ahead of those of room 0: a move
\* into room 0 goes on along a second edge in the same call
moveRoomReordered(r, arg) ==
    LET r1 == IF r = 1 /\ arg = east THEN 0 ELSE r
        r2 == IF r1 = 2 /\ arg = west THEN 0 ELSE r1
        r3 == IF r2 = 3 /\ arg = south THEN 0 ELSE r2
        r4 == IF r3 = 0 /\ arg = north THEN 3 ELSE r3
        r5 == IF r4 = 0 /\ arg = east THEN 2 ELSE r4
        r6 == IF r5 = 0 /\ arg = west THEN 1 ELSE r5
    IN  r6

\* move with the room test of the last if-statement left out: south leads
\* to room 0 from every room
moveRoomSouthAnywhere(r, arg) ==
    LET r1 == IF r = 0 /\ arg = north THEN 3 ELSE r
        r2 == IF r1 = 0 /\ arg = east THEN 2 ELSE r1
        r3 == IF r2 = 0 /\ arg = west THEN 1 ELSE r2
        r4 == IF r3 = 1 /\ arg = east THEN 0 ELSE r3
        r5 == IF r4 = 2 /\ arg = west THEN 0 ELSE r4
        r6 == IF arg = south THEN 0 ELSE r5
    IN  r6

\* the room move(argument) leaves in self.room: six if-statements in a row,
\* each testing the room the ones before it left
moveRoom(r, arg) ==
    LET r1 == IF r = 0 /\ arg = north THEN 3 ELSE r
        r2 == IF r1 = 0 /\ arg = east THEN 2 ELSE r1
        r3 == IF r2 = 0 /\ arg = west THEN 1 ELSE r2
        r4 == IF r3 = 1 /\ arg = east THEN 0 ELSE r3
        r5 == IF r4 = 2 /\ arg = west THEN 0 ELSE r4
        r6 == IF r5 = 3 /\ arg = south THEN 0 ELSE r5
    IN  r6

\* the text say(argument) leaves in self.output_buffer
sayText(arg) == YouSay \o arg \o <<"\"">>

\* the text greet() leaves in self.output_buffer
greetText(r) == Welcome \o game_name \o <<"!", " ">> \o room_description(r)

\* route() with the command folded to lower case before the lookup
routeCommandAnyCase(line) ==
    LET word == Head(split(line, " "))
    IN  [i \in 1..Len(word) |->
            IF Ord[word[i]] \in 65..90 THEN Chr(Ord[word[i]] + 32)
            ELSE word[i]]

\* route() with the command cut at the first whitespace character, as
\* str.split() without a separator cuts it
routeCommandWhitespace(line) ==
    LET cuts == {i \in 1..Len(line) : line[i] \in Whitespace}
        c == CHOOSE i \in cuts : \A j \in cuts : i <= j
    IN  IF cuts = {} THEN line ELSE SubSeq(line, 1, c - 1)

\* route(): the command and the arguments it takes from self.input_buffer
routeCommand(line) == Head(split(line, " "))
routeArguments(line) == join(Tail(split(line, " ")))

\* the keys of the dispatch table of route()
Handlers == {quit, move, say}

\* the bytes push_output() hands to sendall
wireMessage(text) == OKPrefix \o encode(text) \o <<LF>>

\* a client line that is one known command and nothing else: printable
\* ASCII, one newline at its end, the command alone or followed by a space
WellFormed(b) ==
    /\ Len(b) > 0
    /\ b[Len(b)] = LF
    /\ \A i \in 1..(Len(b) - 1) : b[i] \in 32..126
    /\ \E k \in Handlers :
          \/ b = encode(k) \o <<LF>>
          \/ /\ Len(b) > Len(k) + 1
             /\ SubSeq(b, 1, Len(k) + 1) = encode(k \o <<" ">>)

\* ------------------------------------------------------------------ serve
Init ==
    /\ pc = "connect"
    /\ port \in Ports
    /\ socket = "none"
    /\ client_connection = "none"
    /\ input_buffer = <<>>
    /\ output_buffer = <<>>
    /\ done = FALSE
    /\ room = 0
    /\ received = <<>>
    /\ peerClosed = FALSE
    /\ error = "none"
    /\ nchunks = 0
    /\ emptyReads = 0
    /\ nread = 0
    /\ sent = 0
    /\ lastMsg = <<>>
    /\ called = "none"
    /\ argument = <<>>
    /\ preRoom = 0
    /\ preDone = FALSE
    /\ clean = TRUE
    /\ assigned = 0

\* self.connect() up to the call of accept(): the socket is created, bound
\* and listening, and connect() waits for a client
connect ==
    /\ pc = "connect"
    /\ port \in 0..65535
    /\ socket' = "open"
    /\ pc' = "accept"
    /\ UNCHANGED <<client_connection, sessionVars, received, peerClosed,
                   error, nchunks, emptyReads, nread, sent, lastMsg,
                   routeVars, clean, assigned>>
    /\ UNCHANGED port

\* self.connect(): socket.socket() raises OSError (no file descriptor is
\* left) before self.socket is assigned
socket_raises ==
    /\ pc = "connect"
    /\ pc' = "raised"
    /\ error' = "OSError"
    /\ UNCHANGED <<socketVars, sessionVars, received, peerClosed, nchunks,
                   emptyReads, nread, sent, lastMsg, routeVars, clean,
                   assigned>>
    /\ UNCHANGED port

\* self.connect(): bind() or listen() raises OSError (the address is in
\* use) after the socket was created; serve() ends with the socket open
connect_raises ==
    /\ pc = "connect"
    /\ port \in 0..65535
    /\ socket' = "open"
    /\ pc' = "raised"
    /\ error' = "OSError"
    /\ UNCHANGED <<client_connection, sessionVars, received, peerClosed,
                   nchunks, emptyReads, nread, sent, lastMsg, routeVars,
                   clean, assigned>>
    /\ UNCHANGED port

\* self.connect(): bind() raises OverflowError, the port is not in 0..65535
bind_overflows ==
    /\ pc = "connect"
    /\ port \notin 0..65535
    /\ socket' = "open"
    /\ pc' = "raised"
    /\ error' = "OverflowError"
    /\ UNCHANGED <<client_connection, sessionVars, received, peerClosed,
                   nchunks, emptyReads, nread, sent, lastMsg, routeVars,
                   clean, assigned>>
    /\ UNCHANGED port

\* self.client_connection, address = self.socket.accept(): a client has
\* connected
accept ==
    /\ pc = "accept"
    /\ client_connection' = "open"
    /\ pc' = "greet"
    /\ UNCHANGED <<socket, sessionVars, received, peerClosed, error, nchunks,
                   emptyReads, nread, sent, lastMsg, routeVars, clean,
                   assigned>>
    /\ UNCHANGED port

\* self.socket.accept() raises OSError: no client connection is assigned
accept_raises ==
    /\ pc = "accept"
    /\ pc' = "raised"
    /\ error' = "OSError"
    /\ UNCHANGED <<socketVars, sessionVars, received, peerClosed, nchunks,
                   emptyReads, nread, sent, lastMsg, routeVars, clean,
                   assigned>>
    /\ UNCHANGED port

\* greet() followed by the loop, the push_output() after it left out
greetWithoutPush ==
    /\ pc = "greet"
    /\ output_buffer' = greetText(room)
    /\ assigned' = assigned + 1
    /\ pc' = "while"
    /\ UNCHANGED <<socketVars, input_buffer, done, room, received, peerClosed,
                   error, nchunks, emptyReads, nread, sent, lastMsg,
                   routeVars, clean>>
    /\ UNCHANGED port

\* self.greet()
greet ==
    /\ pc = "greet"
    /\ output_buffer' = greetText(room)
    /\ assigned' = assigned + 1
    /\ pc' = "push_output"
    /\ UNCHANGED <<socketVars, input_buffer, done, room, received, peerClosed,
                   error, nchunks, emptyReads, nread, sent, lastMsg,
                   routeVars, clean>>
    /\ UNCHANGED port

\* self.push_output(), after greet() and after each route()
push_output ==
    /\ pc = "push_output"
    /\ lastMsg' = wireMessage(output_buffer)
    /\ sent' = sent + 1
    /\ assigned' = 0
    /\ pc' = "while"
    /\ UNCHANGED <<socketVars, sessionVars, received, peerClosed, error,
                   nchunks, emptyReads, nread, routeVars, clean>>
    /\ UNCHANGED port

\* self.push_output(): sendall raises, ConnectionResetError when the peer
\* has reset the connection, BrokenPipeError when it has closed it; nothing
\* is counted as sent and the pending output stays pending
push_output_raises ==
    /\ pc = "push_output"
    /\ pc' = "raised"
    /\ error' \in {"ConnectionResetError", "BrokenPipeError"}
    /\ clean' = FALSE
    /\ UNCHANGED <<socketVars, sessionVars, received, peerClosed, nchunks,
                   emptyReads, nread, sent, lastMsg, routeVars, assigned>>
    /\ UNCHANGED port

\* the loop with its test left out (while True): get_input() is entered
\* whatever self.done is
while_testForever ==
    /\ pc = "while"
    /\ pc' = "get_input"
    /\ received' = <<>>
    /\ nchunks' = 0
    /\ UNCHANGED <<socketVars, sessionVars, peerClosed, error, emptyReads,
                   nread, sent, lastMsg, routeVars, clean,
                   assigned>>
    /\ UNCHANGED port

\* while not self.done: the test, and the first statement of get_input()
\* when the loop goes on
while_test ==
    /\ pc = "while"
    /\ IF done
         THEN /\ pc' = "close_client"
              /\ UNCHANGED <<received, nchunks>>
         ELSE /\ pc' = "get_input"
              /\ received' = <<>>
              /\ nchunks' = 0
    /\ UNCHANGED <<socketVars, sessionVars, peerClosed, error, emptyReads,
                   nread, sent, lastMsg, routeVars, clean,
                   assigned>>
    /\ UNCHANGED port

\* received += self.client_connection.recv(16), the client has sent bytes
recv_data ==
    /\ pc = "get_input"
    /\ ~HasNewline(received)
    /\ ~peerClosed
    /\ nread < MaxCmds
    /\ nchunks < MaxChunks
    /\ \E c \in Chunks : received' = received \o c
    /\ nchunks' = nchunks + 1
    /\ UNCHANGED <<pc, socketVars, sessionVars, peerClosed, error, emptyReads,
                   nread, sent, lastMsg, routeVars, clean,
                   assigned>>
    /\ UNCHANGED port

\* received += self.client_connection.recv(16), the client has closed the
\* connection: recv returns b'' and the loop tests its condition again
recv_eof ==
    /\ pc = "get_input"
    /\ ~HasNewline(received)
    /\ emptyReads < MaxEmptyReads
    /\ peerClosed' = TRUE
    /\ received' = received \o <<>>
    /\ emptyReads' = emptyReads + 1
    /\ clean' = FALSE
    /\ UNCHANGED <<pc, socketVars, sessionVars, error, nchunks, nread, sent,
                   lastMsg, routeVars,
                   assigned>>
    /\ UNCHANGED port

\* self.client_connection.recv(16) raises: the connection was reset
recv_reset ==
    /\ pc = "get_input"
    /\ ~HasNewline(received)
    /\ ~peerClosed
    /\ pc' = "raised"
    /\ error' = "ConnectionResetError"
    /\ clean' = FALSE
    /\ UNCHANGED <<socketVars, sessionVars, received, peerClosed, nchunks,
                   emptyReads, nread, sent, lastMsg, routeVars,
                   assigned>>
    /\ UNCHANGED port

\* the loop of get_input() ends: self.input_buffer = received.decode().strip()
get_input_return ==
    /\ pc = "get_input"
    /\ HasNewline(received)
    /\ clean' = (clean /\ WellFormed(received))
    /\ IF Decodable(received)
         THEN /\ input_buffer' = strip(decode(received))
              /\ nread' = nread + 1
              /\ pc' = "route"
              /\ error' = error
         ELSE /\ pc' = "raised"
              /\ error' = "UnicodeDecodeError"
              /\ UNCHANGED <<input_buffer, nread>>
    /\ UNCHANGED <<socketVars, output_buffer, done, room, received,
                   peerClosed, nchunks, emptyReads, sent, lastMsg, routeVars,
                   assigned>>
    /\ UNCHANGED port

\* route() with a quit handler that also puts the player back in room 0
routeQuitResetsRoom ==
    /\ pc = "route"
    /\ preRoom' = room
    /\ preDone' = done
    /\ LET command == routeCommand(input_buffer)
           arguments == routeArguments(input_buffer)
       IN  IF command \in Handlers
             THEN /\ argument' = arguments
                  /\ pc' = "push_output"
                  /\ error' = error
                  /\ assigned' = assigned + 1
                  /\ IF command = quit
                       THEN /\ called' = "quit"
                            /\ done' = TRUE
                            /\ output_buffer' = Goodbye
                            /\ room' = 0
                       ELSE IF command = move
                       THEN /\ called' = "move"
                            /\ room' = moveRoom(room, arguments)
                            /\ output_buffer' =
                                   room_description(moveRoom(room, arguments))
                            /\ done' = done
                       ELSE /\ called' = "say"
                            /\ output_buffer' = sayText(arguments)
                            /\ UNCHANGED <<room, done>>
             ELSE /\ pc' = "raised"
                  /\ error' = "KeyError"
                  /\ called' = "none"
                  /\ argument' = <<>>
                  /\ UNCHANGED <<output_buffer, done, room, assigned>>
    /\ UNCHANGED <<socketVars, input_buffer, received, peerClosed, nchunks,
                   emptyReads, nread, sent, lastMsg, clean>>
    /\ UNCHANGED port

\* route() with the failed lookup caught and passed over: no handler runs
\* and serve() goes on to push_output()
routeIgnoresUnknown ==
    /\ pc = "route"
    /\ preRoom' = room
    /\ preDone' = done
    /\ LET command == routeCommand(input_buffer)
           arguments == routeArguments(input_buffer)
       IN  IF command \in Handlers
             THEN /\ argument' = arguments
                  /\ pc' = "push_output"
                  /\ error' = error
                  /\ assigned' = assigned + 1
                  /\ IF command = quit
                       THEN /\ called' = "quit"
                            /\ done' = TRUE
                            /\ output_buffer' = Goodbye
                            /\ room' = room
                       ELSE IF command = move
                       THEN /\ called' = "move"
                            /\ room' = moveRoom(room, arguments)
                            /\ output_buffer' =
                                   room_description(moveRoom(room, arguments))
                            /\ done' = done
                       ELSE /\ called' = "say"
                            /\ output_buffer' = sayText(arguments)
                            /\ UNCHANGED <<room, done>>
             ELSE /\ pc' = "push_output"
                  /\ error' = error
                  /\ called' = "none"
                  /\ argument' = <<>>
                  /\ UNCHANGED <<output_buffer, done, room, assigned>>
    /\ UNCHANGED <<socketVars, input_buffer, received, peerClosed, nchunks,
                   emptyReads, nread, sent, lastMsg, clean>>
    /\ UNCHANGED port

\* self.route(): split, look the command up, call the handler
route ==
    /\ pc = "route"
    /\ preRoom' = room
    /\ preDone' = done
    /\ LET command == routeCommand(input_buffer)
           arguments == routeArguments(input_buffer)
       IN  IF command \in Handlers
             THEN /\ argument' = arguments
                  /\ pc' = "push_output"
                  /\ error' = error
                  /\ assigned' = assigned + 1
                  /\ IF command = quit
                       THEN /\ called' = "quit"
                            /\ done' = TRUE
                            /\ output_buffer' = Goodbye
                            /\ room' = room
                       ELSE IF command = move
                       THEN /\ called' = "move"
                            /\ room' = moveRoom(room, arguments)
                            /\ output_buffer' =
                                   room_description(moveRoom(room, arguments))
                            /\ done' = done
                       ELSE /\ called' = "say"
                            /\ output_buffer' = sayText(arguments)
                            /\ UNCHANGED <<room, done>>
             ELSE /\ pc' = "raised"
                  /\ error' = "KeyError"
                  /\ called' = "none"
                  /\ argument' = <<>>
                  /\ UNCHANGED <<output_buffer, done, room, assigned>>
    /\ UNCHANGED <<socketVars, input_buffer, received, peerClosed, nchunks,
                   emptyReads, nread, sent, lastMsg, clean>>
    /\ UNCHANGED port

\* self.client_connection.close()
close_client ==
    /\ pc = "close_client"
    /\ client_connection' = "closed"
    /\ pc' = "close_socket"
    /\ UNCHANGED <<socket, sessionVars, received, peerClosed, error, nchunks,
                   emptyReads, nread, sent, lastMsg, routeVars, clean,
                   assigned>>
    /\ UNCHANGED port

\* self.socket.close(); serve() returns
close_socket ==
    /\ pc = "close_socket"
    /\ socket' = "closed"
    /\ pc' = "returned"
    /\ UNCHANGED <<client_connection, sessionVars, received, peerClosed,
                   error, nchunks, emptyReads, nread, sent, lastMsg,
                   routeVars, clean,
                   assigned>>
    /\ UNCHANGED port

Next ==
    \/ connect
    \/ socket_raises
    \/ connect_raises
    \/ bind_overflows
    \/ accept
    \/ accept_raises
    \/ greet
    \/ push_output
    \/ push_output_raises
    \/ while_test
    \/ recv_data
    \/ recv_eof
    \/ recv_reset
    \/ get_input_return
    \/ route
    \/ close_client
    \/ close_socket

Spec == Init /\ [][Next]_vars

\* ----------------------------------------------------------- properties
TypeOK ==
    /\ pc \in {"connect", "accept", "greet", "push_output", "while",
               "get_input", "route", "close_client", "close_socket",
               "returned", "raised"}
    /\ room \in 0..3
    /\ done \in BOOLEAN
    /\ sent \in 0..(MaxCmds + 1)
    /\ nread \in 0..MaxCmds

\* the bytes of 'OK! Goodbye Adventurer!\n'
FarewellWire ==
    <<79,75,33,32,71,111,111,100,98,121,101,32,65,100,118,101,110,116,117,
      114,101,114,33,10>>

\* the bytes of 'OK! Welcome to Land of the Lost! ' and the description of
\* room 0 and a newline
GreetingWire ==
    <<79,75,33,32,87,101,108,99,111,109,101,32,116,111,32,76,97,110,100,32,
      111,102,32,116,104,101,32,76,111,115,116,33,32,89,111,117,32,97,114,
      101,32,105,110,32,116,104,101,32,119,104,105,116,101,32,114,111,111,
      109,32,119,105,116,104,32,98,108,97,99,107,32,99,117,114,116,97,105,
      110,115,44,32,97,32,115,119,111,114,100,32,103,108,105,115,116,101,
      110,115,32,105,110,32,116,104,101,32,99,111,114,110,101,114,46,46,46,
      10>>

\* s begins with p
StartsWith(s, p) == Len(s) >= Len(p) /\ SubSeq(s, 1, Len(p)) = p

\* the line is the word w alone, or w followed by a space and more
HasToken(line, w) == line = w \/ StartsWith(line, w \o <<" ">>)

\* s without its space characters
RemoveSpaces(s) == SelectSeq(s, LAMBDA c : c # " ")

\* the map of the four rooms: (room, direction) -> destination
Adjacency ==
    (<<0, <<"n","o","r","t","h">>>> :> 3) @@
    (<<0, <<"e","a","s","t">>>> :> 2) @@
    (<<0, <<"w","e","s","t">>>> :> 1) @@
    (<<1, <<"e","a","s","t">>>> :> 0) @@
    (<<2, <<"w","e","s","t">>>> :> 0) @@
    (<<3, <<"s","o","u","t","h">>>> :> 0)

\* the description of each room
DescriptionOf(r) ==
    CASE r = 0 -> Description0
      [] r = 1 -> Description1
      [] r = 2 -> Description2
      [] r = 3 -> Description3

\* C1: while the client has sent only well-formed known commands, one line
\* per read, no failure ends the session once the client is connected;
\* nothing is sent before accept() has returned and greet() has run, the
\* first message is the greeting, after every message sent
\* (while the server waits for, or reads, the next command, and once it has
\* left the loop) the messages sent are the commands read plus one, between
\* reading a command and answering it they are equal, and when serve() has
\* returned the last message is the quit farewell.
SessionAlternates ==
    clean =>
        /\ pc = "raised" => client_connection = "none"
        /\ client_connection = "none" => sent = 0 /\ nread = 0
        /\ pc \in {"connect", "accept", "greet"} => sent = 0 /\ nread = 0
        /\ pc \in {"route", "push_output"} => sent = nread
        /\ pc \in {"while", "get_input", "close_client", "close_socket",
                   "returned"} => sent = nread + 1
        /\ sent = 1 => lastMsg = GreetingWire
        /\ pc = "returned" => lastMsg = FarewellWire /\ called = "quit"

SessionAlternatesWitness ==
    /\ clean
    /\ pc = "returned"
    /\ nread = 3
    /\ sent = 4
    /\ room = 3

\* C2: every message push_output sends is 'OK! ', a text without newline,
\* and one newline.
OutputIsFramed ==
    sent > 0 =>
        /\ StartsWith(lastMsg, <<79, 75, 33, 32>>)
        /\ lastMsg[Len(lastMsg)] = 10
        /\ \A i \in 1..(Len(lastMsg) - 1) : lastMsg[i] # 10

\* C3: a move along an edge of the map leaves the player in exactly the
\* destination of that edge, and the pending output is its description.
MoveFollowsMap ==
    (called = "move" /\ <<preRoom, argument>> \in DOMAIN Adjacency) =>
        /\ room = Adjacency[<<preRoom, argument>>]
        /\ output_buffer = DescriptionOf(Adjacency[<<preRoom, argument>>])

MoveFollowsMapWitness ==
    /\ called = "move"
    /\ pc = "push_output"
    /\ preRoom = 1
    /\ argument = <<"e","a","s","t">>
    /\ room = 0
    /\ output_buffer = Description0

\* C4: a move with an argument that is no edge from the current room leaves
\* the room as it was, the pending output is the description of that room,
\* and no failure is raised.
MoveOffMapStep ==
    (pc = "route" /\ called' = "move"
        /\ <<room, argument'>> \notin DOMAIN Adjacency) =>
        /\ room' = room
        /\ output_buffer' = DescriptionOf(room)
        /\ pc' = "push_output"
        /\ error' = "none"

MoveOffMapStays == [][MoveOffMapStep]_vars

MoveOffMapStaysWitness ==
    /\ called = "move"
    /\ pc = "while"
    /\ preRoom = 2
    /\ argument = <<"e","a","s","t">>
    /\ room = 2
    /\ lastMsg = <<79, 75, 33, 32>> \o encode(Description2) \o <<10>>

\* C5: once a line whose command is quit has been dispatched, done is true,
\* the response is sent and is exactly 'OK! Goodbye Adventurer!\n', no
\* further command is read and no further message sent, and serve() goes
\* on to close the client connection and then the listening socket.
QuitEndsSessionState ==
    /\ (nread > 0 /\ pc = "push_output"
          /\ HasToken(input_buffer, <<"q","u","i","t">>)) => called = "quit"
    /\ called = "quit" =>
        /\ done
        /\ pc \in {"push_output", "while", "close_client", "close_socket",
                   "returned"}
        /\ pc = "push_output" => sent = nread
        /\ pc # "push_output" => lastMsg = FarewellWire /\ sent = nread + 1
        /\ pc = "returned" =>
              client_connection = "closed" /\ socket = "closed"
    /\ socket = "closed" => client_connection = "closed"

QuitEndsSessionStep ==
    called = "quit" =>
        /\ nread' = nread
        /\ input_buffer' = input_buffer
        /\ pc = "push_output" =>
              lastMsg' = FarewellWire /\ sent' = sent + 1 /\ pc' = "while"
        /\ pc # "push_output" => sent' = sent /\ lastMsg' = lastMsg
        /\ pc = "while" => pc' = "close_client"
        /\ pc = "close_client" =>
              client_connection' = "closed" /\ socket' = "open"
        /\ pc = "close_socket" => socket' = "closed" /\ pc' = "returned"

QuitEndsSession == []QuitEndsSessionState /\ [][QuitEndsSessionStep]_vars

\* C6: the response to a line 'say <text>' is 'OK! You say, "<t>"\n' where
\* <t> is <text> without its space characters.
SayDropsSpaces ==
    (called = "say" /\ StartsWith(input_buffer, <<"s","a","y"," ">>)) =>
        LET text == SubSeq(input_buffer, 5, Len(input_buffer))
            t == RemoveSpaces(text)
            expected == <<"Y","o","u"," ","s","a","y",","," ","\"">>
                            \o t \o <<"\"">>
        IN  /\ pc = "push_output" => output_buffer = expected
            /\ pc = "while" =>
                  lastMsg = <<79, 75, 33, 32>> \o encode(expected) \o <<10>>

SayDropsSpacesWitness ==
    /\ called = "say"
    /\ pc = "while"
    /\ input_buffer =
          <<"s","a","y"," ","h","e","l","l","o"," ","t","h","e","r","e">>
    /\ lastMsg =
          <<79,75,33,32,89,111,117,32,115,97,121,44,32,34,104,101,108,108,
            111,116,104,101,114,101,34,10>>

\* C7: the response to a line 'say <text>' echoes <text> as the client
\* typed it, spaces included.
SayEchoesVerbatim ==
    (called = "say" /\ pc = "while"
        /\ StartsWith(input_buffer, <<"s","a","y"," ">>)
        /\ \A i \in 1..Len(input_buffer) : input_buffer[i] # "\n") =>
        lastMsg = <<79, 75, 33, 32>>
                    \o encode(<<"Y","o","u"," ","s","a","y",","," ","\"">>
                          \o SubSeq(input_buffer, 5, Len(input_buffer))
                          \o <<"\"">>)
                    \o <<10>>

\* C8: when recv has returned empty bytes because the peer closed the
\* connection before a newline arrived, get_input has stopped with a
\* failure that ends the session: it is not in its loop, about to read
\* again.
ReadStopsAtEOF ==
    emptyReads > 0 => pc = "raised"

\* C9: a line whose command is none of move, say, quit makes route() fail
\* with an unknown-command error that ends the session: no handler runs,
\* room, done and the pending output stay as they were and nothing is sent.
UnknownCommandStep ==
    /\ (pc = "route"
          /\ ~HasToken(input_buffer, <<"m","o","v","e">>)
          /\ ~HasToken(input_buffer, <<"s","a","y">>)
          /\ ~HasToken(input_buffer, <<"q","u","i","t">>)) =>
            /\ pc' = "raised"
            /\ error' = "KeyError"
            /\ called' = "none"
            /\ room' = room
            /\ done' = done
            /\ output_buffer' = output_buffer
            /\ sent' = sent
            /\ lastMsg' = lastMsg
    /\ pc # "raised"

UnknownCommandFails == [][UnknownCommandStep]_vars

UnknownCommandFailsWitness ==
    /\ pc = "raised"
    /\ error = "KeyError"
    /\ input_buffer = <<"f","l","y"," ","u","p">>
    /\ room = 2
    /\ nread = 2
    /\ sent = 2

\* C10: when serve() has ended after both sockets were acquired, by return
\* or by an exception, the client connection and the listening socket are
\* both closed.
SocketsReleased ==
    (pc \in {"returned", "raised"} /\ client_connection # "none") =>
        client_connection = "closed" /\ socket = "closed"

\* the part of the line before its first character of seps, the whole line
\* when it has none
WordBefore(line, seps) ==
    LET cuts == {i \in 1..Len(line) : line[i] \in seps}
        c == CHOOSE i \in cuts : \A j \in cuts : i <= j
    IN  IF cuts = {} THEN line ELSE SubSeq(line, 1, c - 1)

\* the three command words
CommandWords == {<<"m","o","v","e">>, <<"s","a","y">>, <<"q","u","i","t">>}

\* the handler a command word names
HandlerOf(w) ==
    CASE w = <<"m","o","v","e">> -> "move"
      [] w = <<"s","a","y">> -> "say"
      [] w = <<"q","u","i","t">> -> "quit"

\* C11 as stated: the command is the first whitespace-delimited token of
\* the line, so a line with a tab between command and argument is
\* dispatched to the handler the command names.
WhitespaceTokenStep ==
    (pc = "route"
        /\ WordBefore(input_buffer, {" ", "\t", "\n", "\r"}) \in CommandWords)
        => called' = HandlerOf(WordBefore(input_buffer,
                                          {" ", "\t", "\n", "\r"}))

SpaceTokenStep ==
    pc = "route" =>
        LET w == WordBefore(input_buffer, {" "})
        IN  IF w \in CommandWords
              THEN called' = HandlerOf(w) /\ pc' = "push_output"
              ELSE called' = "none" /\ pc' = "raised" /\ error' = "KeyError"

DescriptionsIdentifyRoom ==
    /\ \A r1, r2 \in 0..3 :
          room_description(r1) = room_description(r2) => r1 = r2
    /\ (called = "move" /\ pc = "while") =>
          \A r \in 0..3 :
              (lastMsg = wireMessage(room_description(r))) <=> (r = room)

DescriptionsIdentifyRoomWitness ==
    /\ called = "move"
    /\ pc = "while"
    /\ preRoom = 0
    /\ room = 2
    /\ nread = 3
    /\ lastMsg = <<79, 75, 33, 32>> \o encode(Description2) \o <<10>>
\* C13: self.room is one of 0, 1, 2, 3 in every reachable state, and so is
\* the room every route() started in.
RoomInRange ==
    /\ room \in {0, 1, 2, 3}
    /\ preRoom \in {0, 1, 2, 3}

RoomInRangeWitness ==
    /\ pc = "returned"
    /\ called = "quit"
    /\ room = 2
    /\ nread = 3
    /\ sent = 4
    /\ ~clean
\* C14: done is false at the start, becomes true only in a route() step
\* that calls quit, never becomes false again, and once it is true no
\* command is read or dispatched.
DoneState ==
    /\ pc \in {"connect", "accept", "greet"} => ~done
    /\ done => called = "quit"
    /\ done => pc \in {"push_output", "while", "close_client",
                       "close_socket", "returned", "raised"}

DoneStep ==
    /\ done => done'
    /\ (~done /\ done') => (pc = "route" /\ called' = "quit")
    /\ done => (nread' = nread /\ pc' \notin {"get_input", "route"})

DoneOnlyByQuit == []DoneState /\ [][DoneStep]_vars

DoneOnlyByQuitWitness ==
    /\ done
    /\ ~preDone
    /\ pc = "close_client"
    /\ nread = 2
    /\ room = 3
\* C15: every push_output() sends a pending output that was assigned
\* exactly once since the flush before it: by greet() before the first
\* flush, afterwards by the handler of the one command dispatched, whose
\* text replaces what was pending; nothing is assigned outside that window.
OutputAssignedOnceState ==
    /\ pc = "push_output" => assigned = 1
    /\ pc \notin {"push_output", "raised"} => assigned = 0
    /\ assigned \in {0, 1}
    /\ (pc = "push_output" /\ nread = 0) =>
          output_buffer = decode(SubSeq(GreetingWire, 5,
                                        Len(GreetingWire) - 1))
    /\ (pc = "push_output" /\ nread > 0) =>
          output_buffer =
              CASE called = "quit" ->
                     <<"G","o","o","d","b","y","e"," ","A","d","v","e","n",
                       "t","u","r","e","r","!">>
                [] called = "move" -> DescriptionOf(room)
                [] called = "say" ->
                     <<"Y","o","u"," ","s","a","y",","," ","\"">>
                         \o argument \o <<"\"">>

OutputAssignedOnceStep ==
    /\ sent' # sent => (pc = "push_output" /\ sent' = sent + 1)
    /\ sent' = sent + 1 =>
          lastMsg' = <<79, 75, 33, 32>> \o encode(output_buffer) \o <<10>>
    /\ sent' = sent => lastMsg' = lastMsg

OutputAssignedOnce ==
    []OutputAssignedOnceState /\ [][OutputAssignedOnceStep]_vars

OutputAssignedOnceWitness ==
    /\ pc = "push_output"
    /\ assigned = 1
    /\ nread = 2
    /\ called = "say"
    /\ argument = <<"h","i">>
    /\ lastMsg = <<79, 75, 33, 32>> \o encode(Description3) \o <<10>>
\* C16: the bytes that follow the first newline of a read are dropped: the
\* input line a command is dispatched from is the trimmed text before that
\* newline, and a command pipelined behind it gets no response of its own.
PipelinedCommandLost ==
    /\ pc = "route" =>
          input_buffer = strip(decode(WordBefore(received, {10})))
    /\ sent <= nread + 1
\* C17: greet() runs once, after accept and before the first flush, with
\* the player in room 0; the first message is 'OK! Welcome to Land of the
\* Lost! ', the description of room 0 and a newline, and no later message
\* is a greeting.
GreetOnceState ==
    /\ sent = 0 => pc \in {"connect", "accept", "greet", "push_output",
                         "raised"}
    /\ sent >= 1 => pc \notin {"connect", "accept", "greet"}
    /\ sent = 1 => lastMsg = GreetingWire
    /\ sent > 1 =>
          ~StartsWith(lastMsg, SubSeq(GreetingWire, 1, 15))

GreetOnceStep ==
    /\ pc' = "greet" => (pc = "accept" /\ client_connection' = "open")
    /\ pc = "greet" =>
          /\ room = 0
          /\ sent = 0
          /\ client_connection = "open"
          /\ pc' = "push_output"
          /\ assigned' = 1

GreetOnce == []GreetOnceState /\ [][GreetOnceStep]_vars

GreetOnceWitness ==
    /\ sent = 4
    /\ pc = "while"
    /\ called = "move"
    /\ preRoom = 3
    /\ room = 0
    /\ lastMsg = <<79, 75, 33, 32>> \o encode(Description0) \o <<10>>
\* the direction opposite to d
Opposite(d) ==
    CASE d = <<"n","o","r","t","h">> -> <<"s","o","u","t","h">>
      [] d = <<"s","o","u","t","h">> -> <<"n","o","r","t","h">>
      [] d = <<"e","a","s","t">> -> <<"w","e","s","t">>
      [] d = <<"w","e","s","t">> -> <<"e","a","s","t">>

\* C18: every edge of the map has its way back: a move along an edge
\* followed by a move in the opposite direction leaves the player in the
\* room the first move started from, with that room's description pending.
MoveBackStep ==
    /\ \A e \in DOMAIN Adjacency :
          moveRoom(moveRoom(e[1], e[2]), Opposite(e[2])) = e[1]
    /\ (pc = "route" /\ called = "move"
          /\ <<preRoom, argument>> \in DOMAIN Adjacency
          /\ called' = "move" /\ argument' = Opposite(argument)) =>
            /\ room' = preRoom
            /\ output_buffer' = DescriptionOf(preRoom)

MovesAreReversible == [][MoveBackStep]_vars

MovesAreReversibleWitness ==
    /\ pc = "push_output"
    /\ called = "move"
    /\ argument = <<"s","o","u","t","h">>
    /\ preRoom = 3
    /\ room = 0
    /\ nread = 2
    /\ lastMsg = <<79, 75, 33, 32>> \o encode(Description3) \o <<10>>
\* C19: in the route() step that calls it, say changes neither room nor
\* done, move does not change done, quit does not change room, and no
\* handler changes input_buffer.
HandlerFrameStep ==
    pc = "route" =>
        /\ called' = "say" => (room' = room /\ done' = done)
        /\ called' = "move" => done' = done
        /\ called' = "quit" => room' = room
        /\ input_buffer' = input_buffer

HandlersKeepFrame == [][HandlerFrameStep]_vars

HandlersKeepFrameWitness ==
    /\ pc = "push_output"
    /\ called = "quit"
    /\ done
    /\ ~preDone
    /\ preRoom = 2
    /\ room = 2
    /\ nread = 2
\* C20: a line of a known command followed by a space and more is
\* dispatched as the line with every space of the remainder taken out is:
\* the same handler, the same argument, the same room and done afterwards
\* and the same pending output; 'move n orth' in room 0 leads to room 3.
SpacesInArgumentStep ==
    (pc = "route" /\ WordBefore(input_buffer, {" "}) \in CommandWords
        /\ Len(input_buffer) > Len(WordBefore(input_buffer, {" "}))) =>
        LET w == WordBefore(input_buffer, {" "})
            a == RemoveSpaces(SubSeq(input_buffer, Len(w) + 2,
                                     Len(input_buffer)))
            plain == w \o <<" ">> \o a
        IN  /\ routeCommand(plain) = w
            /\ called' = HandlerOf(w)
            /\ argument' = routeArguments(plain)
            /\ argument' = a
            /\ room' = IF called' = "move"
                         THEN moveRoom(room, routeArguments(plain))
                         ELSE room
            /\ done' = (done \/ called' = "quit")
            /\ output_buffer' =
                  CASE called' = "move" ->
                         room_description(
                             moveRoom(room, routeArguments(plain)))
                    [] called' = "say" -> sayText(routeArguments(plain))
                    [] called' = "quit" -> Goodbye
            /\ (room = 0 /\ input_buffer =
                    <<"m","o","v","e"," ","n"," ","o","r","t","h">>)
                  => room' = 3

SpacesInArgumentIgnored == [][SpacesInArgumentStep]_vars

SpacesInArgumentIgnoredWitness ==
    /\ pc = "push_output"
    /\ called = "move"
    /\ input_buffer = <<"m","o","v","e"," ","n"," ","o","r","t","h">>
    /\ argument = <<"n","o","r","t","h">>
    /\ preRoom = 0
    /\ room = 3
====
